---- MODULE Spec2Model ----
(***************************************************************************)
(* Model of neurons/miner.py: one run of main().                           *)
(*                                                                         *)
(*   main -> parse_arguments -> setup_logging -> run_miner                 *)
(*   run_miner -> setup_bittensor_objects -> subtensor.set_commitment      *)
(*                                                                         *)
(* The external collaborators (bt.config, load_config, os.makedirs,        *)
(* bt.logging, bt.wallet, bt.async_subtensor, metagraph, SubstrateInterface*)
(* and set_commitment) are modelled by their observable outcome: each      *)
(* call either returns a value drawn from a small set or raises.           *)
(***************************************************************************)
EXTENDS Integers, Sequences, FiniteSets, TLC

VARIABLES
    pc,                 \* the statement main() is about to execute
    cli_config,         \* bt.config(parser): CLI / environment values
    file_params,        \* what load_config() returned
    config,             \* the merged configuration object
    wallet,             \* wallet.hotkey.ss58_address, or NoWallet
    subtensor,          \* TRUE once the chain connection is open
    metagraph,          \* metagraph.hotkeys, a Python list (index 0 first)
    miner_uid,          \* << uid >> once resolved, << >> before
    node,               \* TRUE once SubstrateInterface(...) was constructed
    commitment_status,  \* << status >> once set_commitment returned, << >> before
    log,                \* lines given to bt.logging, in order
    stdout,             \* lines given to print(), in order
    calls,              \* external calls issued, in order
    thrown,             \* the exception an external call raised, or NoExc
    exc                 \* the exception that escaped main(), or NoExc

vars == << pc, cli_config, file_params, config, wallet, subtensor, metagraph,
           miner_uid, node, commitment_status, log, stdout, calls, thrown, exc >>

----------------------------------------------------------------------------
(* Bounds of the model *)

MaxHotkeys == 3

(* Input domains *)

Addresses == {"5Alice", "5Bob"}
Networks == {"finney", "test"}
CliNetuids == {67, 68}
FileNetuids == {68, 69}
FileTargets == {"target_a"}
ExcKinds == {"MetadataError", "ConnectionError", "TimeoutError"}
Statuses == BOOLEAN

NoWallet == "<no wallet>"
NoExc == [kind |-> "none", site |-> "none"]

RECURSIVE SeqsUpTo(_, _)
SeqsUpTo(S, n) ==
    IF n = 0 THEN {<< >>}
    ELSE LET shorter == SeqsUpTo(S, n - 1)
         IN  shorter \cup {Append(s, x) : s \in {t \in shorter : Len(t) = n - 1}, x \in S}

HotkeyLists == SeqsUpTo(Addresses, MaxHotkeys)

Restrict(f, D) == [k \in D |-> f[k]]

CliConfigs == [network : Networks, netuid : CliNetuids]

FileConfigs ==
    {Restrict(full, D) : full \in [netuid : FileNetuids, weekly_target : FileTargets],
                         D \in SUBSET {"netuid", "weekly_target"}}

----------------------------------------------------------------------------
(* Helpers *)

Info(m) == [level |-> "info", msg |-> m]
Error(m) == [level |-> "error", msg |-> m]
Exc(k, s) == [kind |-> k, site |-> s]
Call(o, a) == [op |-> o, arg |-> a]
Range(s) == {s[i] : i \in 1..Len(s)}
PyStr(b) == IF b THEN "True" ELSE "False"

----------------------------------------------------------------------------
(* parse_arguments *)

LoggingDir == "~/.bittensor/miners"
WalletName == "default"
HotkeyStr == "default"

\* dict.update: every key of e is written into d, the last writer wins
Update(d, e) ==
    [k \in DOMAIN d \cup DOMAIN e |-> IF k \in DOMAIN e THEN e[k] ELSE d[k]]

\* "{}/{}/{}/netuid{}/{}".format(logging_dir, wallet.name, hotkey_str, netuid, 'miner')
FullPath(cfg) ==
    LoggingDir \o "/" \o WalletName \o "/" \o HotkeyStr \o "/netuid"
        \o ToString(cfg.netuid) \o "/" \o "miner"

----------------------------------------------------------------------------
(* setup_bittensor_objects *)

\* the statements inside try: ... except Exception
SetupTrySitesWithoutNode ==
    {"async_subtensor", "metagraph", "sync", "index"}
SetupTrySites ==
    {"async_subtensor", "metagraph", "sync", "index", "SubstrateInterface"}

\* the two bt.logging.error lines of the except block
SetupExceptLogRawOnly(e) ==
    << Error("Failed to setup Bittensor objects: " \o e.kind) >>
SetupExceptLog(e) ==
    << Error("Failed to setup Bittensor objects: " \o e.kind),
       Error("Please check your network connection and the subtensor network status") >>

\* the bare raise that ends the except block
SetupExceptSwallows == "set_commitment"
SetupExceptPc == "raised"

\* return wallet, subtensor, metagraph, miner_uid
SetupReturnPc == "set_commitment"

\* list.index(x): the position of the first element equal to x, counted from 0
IndexLast(list, x) ==
    (CHOOSE i \in 1..Len(list) :
        list[i] = x /\ \A j \in 1..Len(list) : list[j] = x => j <= i) - 1
Index(list, x) ==
    (CHOOSE i \in 1..Len(list) :
        list[i] = x /\ \A j \in 1..Len(list) : list[j] = x => i <= j) - 1

----------------------------------------------------------------------------
(* run_miner *)

Owner == "alcantara0123"
Repo == "nova-1119"
Branch == "master"
Data == Owner \o "/" \o Repo \o "@" \o Branch

\* netuid=68 in the set_commitment call
CommitNetuidFromConfig(cfg) == cfg.netuid
CommitNetuid(cfg) == 68

\* except MetadataError
CatchesNothing(kind) == FALSE
CatchesEverything(kind) == TRUE
CatchesRateLimit(kind) == kind = "MetadataError"

\* the return of the except MetadataError block
RateLimitRetries == "set_commitment"
RateLimitPc == "done"

\* if commitment_status:
AlwaysTruthy(status) == TRUE
Truthy(status) == status = TRUE

StatusLine(status) == "Chain commitment status: " \o PyStr(status)
SuccessLine == "Commitment set successfully for (" \o Data \o ")"
TooSoonLine == "Too soon to commit again. Will keep looking for better candidates."

----------------------------------------------------------------------------
(* The run *)

Init ==
    /\ pc = "parse_arguments"
    /\ cli_config = << >>
    /\ file_params = << >>
    /\ config = << >>
    /\ wallet = NoWallet
    /\ subtensor = FALSE
    /\ metagraph = << >>
    /\ miner_uid = << >>
    /\ node = FALSE
    /\ commitment_status = << >>
    /\ log = << >>
    /\ stdout = << >>
    /\ calls = << >>
    /\ thrown = NoExc
    /\ exc = NoExc

\* An exception e leaves the current function. l is the log so far.
\* Inside setup_bittensor_objects' try block the except block runs first.
Raise(e, l) ==
    /\ thrown' = e
    /\ IF e.site \in SetupTrySites
       THEN /\ log' = l \o SetupExceptLog(e)
            /\ pc' = SetupExceptPc
            /\ exc' = IF pc' = "raised" THEN e ELSE NoExc
       ELSE /\ log' = l
            /\ pc' = "raised"
            /\ exc' = e

\* lines 29-58
ParseArguments ==
    /\ pc = "parse_arguments"
    /\ \E cli \in CliConfigs, file \in FileConfigs :
         LET merged == Update(cli, file)
             final == Update(merged, [full_path |-> FullPath(merged)])
         IN  /\ cli_config' = cli
             /\ file_params' = file
             /\ config' = final
             /\ calls' = Append(calls, Call("makedirs", final.full_path))
             /\ \/ /\ pc' = "setup_logging"
                   /\ UNCHANGED << log, thrown, exc >>
                \/ \E k \in ExcKinds : Raise(Exc(k, "makedirs"), log)
    /\ UNCHANGED << wallet, subtensor, metagraph, miner_uid, node,
                    commitment_status, stdout >>

\* lines 71-73
SetupLogging ==
    /\ pc = "setup_logging"
    /\ calls' = Append(calls, Call("logging", config.full_path))
    /\ \/ /\ log' = log \o
                << Info("Running miner for subnet: " \o ToString(config.netuid)
                          \o " on network: subtensor.network with config:"),
                   Info("config") >>
          /\ pc' = "wallet"
          /\ UNCHANGED << thrown, exc >>
       \/ \E k \in ExcKinds : Raise(Exc(k, "logging"), log)
    /\ UNCHANGED << cli_config, file_params, config, wallet, subtensor, metagraph,
                    miner_uid, node, commitment_status, stdout >>

\* lines 92-96
ConstructWallet ==
    /\ pc = "wallet"
    /\ calls' = Append(calls, Call("wallet", WalletName))
    /\ LET l == Append(log, Info("Setting up Bittensor objects."))
       IN  \/ \E a \in Addresses :
                /\ wallet' = a
                /\ log' = Append(l, Info("Wallet: " \o a))
                /\ pc' = "async_subtensor"
                /\ UNCHANGED << thrown, exc >>
           \/ /\ \E k \in ExcKinds : Raise(Exc(k, "wallet"), l)
              /\ UNCHANGED wallet
    /\ UNCHANGED << cli_config, file_params, config, subtensor, metagraph,
                    miner_uid, node, commitment_status, stdout >>

\* lines 100-101
Connect ==
    /\ pc = "async_subtensor"
    /\ calls' = Append(calls, Call("async_subtensor", config.network))
    /\ \/ /\ subtensor' = TRUE
          /\ log' = Append(log, Info("Connected to subtensor network: " \o config.network))
          /\ pc' = "metagraph"
          /\ UNCHANGED << thrown, exc >>
       \/ /\ \E k \in ExcKinds : Raise(Exc(k, "async_subtensor"), log)
          /\ UNCHANGED subtensor
    /\ UNCHANGED << cli_config, file_params, config, wallet, metagraph,
                    miner_uid, node, commitment_status, stdout >>

\* line 104
FetchMetagraph ==
    /\ pc = "metagraph"
    /\ calls' = Append(calls, Call("metagraph", config.netuid))
    /\ \/ /\ \E hk \in HotkeyLists : metagraph' = hk
          /\ pc' = "sync"
          /\ UNCHANGED << log, thrown, exc >>
       \/ /\ \E k \in ExcKinds : Raise(Exc(k, "metagraph"), log)
          /\ UNCHANGED metagraph
    /\ UNCHANGED << cli_config, file_params, config, wallet, subtensor,
                    miner_uid, node, commitment_status, stdout >>

\* lines 105-109
SyncMetagraph ==
    /\ pc = "sync"
    /\ calls' = Append(calls, Call("sync", config.netuid))
    /\ \/ /\ \E hk \in HotkeyLists : metagraph' = hk
          /\ log' = log \o << Info("Metagraph synced successfully."),
                              Info("Subtensor: subtensor"),
                              Info("Metagraph synced: metagraph") >>
          /\ pc' = "index"
          /\ UNCHANGED << thrown, exc >>
       \/ /\ \E k \in ExcKinds : Raise(Exc(k, "sync"), log)
          /\ UNCHANGED metagraph
    /\ UNCHANGED << cli_config, file_params, config, wallet, subtensor,
                    miner_uid, node, commitment_status, stdout >>

\* lines 112-113
ResolveUID ==
    /\ pc = "index"
    /\ calls' = Append(calls, Call("index", wallet))
    /\ IF wallet \in Range(metagraph)
       THEN /\ miner_uid' = << Index(metagraph, wallet) >>
            /\ log' = Append(log, Info("Miner UID: " \o ToString(Index(metagraph, wallet))))
            /\ pc' = "SubstrateInterface"
            /\ UNCHANGED << thrown, exc >>
       ELSE /\ Raise(Exc("ValueError", "index"), log)
            /\ UNCHANGED miner_uid
    /\ UNCHANGED << cli_config, file_params, config, wallet, subtensor, metagraph,
                    node, commitment_status, stdout >>

\* lines 116-119
SubstrateNode ==
    /\ pc = "SubstrateInterface"
    /\ calls' = Append(calls, Call("SubstrateInterface", config.network))
    /\ \/ /\ node' = TRUE
          /\ pc' = SetupReturnPc
          /\ UNCHANGED << log, thrown, exc >>
       \/ /\ \E k \in ExcKinds : Raise(Exc(k, "SubstrateInterface"), log)
          /\ UNCHANGED node
    /\ UNCHANGED << cli_config, file_params, config, wallet, subtensor, metagraph,
                    miner_uid, commitment_status, stdout >>

\* lines 150-165
SetCommitment ==
    /\ pc = "set_commitment"
    /\ calls' = Append(calls,
                       Call("set_commitment",
                            [wallet |-> wallet, netuid |-> CommitNetuid(config),
                             data |-> Data]))
    /\ \/ \E status \in Statuses :
            /\ commitment_status' = << status >>
            /\ log' = Append(log, Info(StatusLine(status)))
                        \o (IF Truthy(status) THEN << Info(SuccessLine) >> ELSE << >>)
            /\ stdout' = Append(stdout, StatusLine(status))
                           \o (IF Truthy(status) THEN << SuccessLine >> ELSE << >>)
            /\ pc' = "done"
            /\ UNCHANGED << thrown, exc >>
       \/ \E k \in ExcKinds :
            /\ IF CatchesRateLimit(k)
               THEN /\ thrown' = Exc(k, "set_commitment")
                    /\ log' = Append(log, Info(TooSoonLine))
                    /\ pc' = RateLimitPc
                    /\ UNCHANGED exc
               ELSE Raise(Exc(k, "set_commitment"), log)
            /\ UNCHANGED << commitment_status, stdout >>
    /\ UNCHANGED << cli_config, file_params, config, wallet, subtensor, metagraph,
                    miner_uid, node >>

Next ==
    \/ ParseArguments
    \/ SetupLogging
    \/ ConstructWallet
    \/ Connect
    \/ FetchMetagraph
    \/ SyncMetagraph
    \/ ResolveUID
    \/ SubstrateNode
    \/ SetCommitment

Spec == Init /\ [][Next]_vars

\* asyncio.run drives the single task until it returns or raises
FairSpec == Spec /\ WF_vars(Next)

----------------------------------------------------------------------------
(* Vocabulary of the properties *)

Terminal == pc \in {"done", "raised"}
Ops == [i \in 1..Len(calls) |-> calls[i].op]
CommitCalls == {i \in 1..Len(calls) : calls[i].op = "set_commitment"}
ErrorLines == {i \in 1..Len(log) : log[i].level = "error"}
Logged(level, m) == {i \in 1..Len(log) : log[i] = [level |-> level, msg |-> m]}
Printed(m) == {i \in 1..Len(stdout) : stdout[i] = m}
Confirmation == "Commitment set successfully for (alcantara0123/nova-1119@master)"
ConfirmationEmitted == Logged("info", Confirmation) # {} \/ Printed(Confirmation) # {}

\* the log ends with the two diagnostic lines of the except block, and they are
\* the only error-level lines
TwoErrorLines ==
    /\ Len(log) >= 2
    /\ log[Len(log) - 1] =
         [level |-> "error", msg |-> "Failed to setup Bittensor objects: " \o thrown.kind]
    /\ log[Len(log)] =
         [level |-> "error",
          msg |-> "Please check your network connection and the subtensor network status"]
    /\ ErrorLines = {Len(log) - 1, Len(log)}

Order ==
    << "makedirs", "logging", "wallet", "async_subtensor", "metagraph", "sync",
       "index", "SubstrateInterface", "set_commitment" >>

----------------------------------------------------------------------------
(* Properties *)

\* C1: when set_commitment raises MetadataError, run_miner returns normally: no
\* exception escapes, exactly one informational "Too soon to commit again..."
\* line is logged, and no error-level line and no success confirmation is emitted.
C1_RateLimitAbsorbed ==
    (thrown = Exc("MetadataError", "set_commitment")) =>
        /\ pc = "done"
        /\ exc = NoExc
        /\ Cardinality(Logged("info",
             "Too soon to commit again. Will keep looking for better candidates.")) = 1
        /\ ErrorLines = {}
        /\ ~ConfirmationEmitted
        /\ commitment_status = << >>

C1_Witness ==
    /\ thrown = Exc("MetadataError", "set_commitment")
    /\ pc = "done"

\* C2: when set_commitment raises any other kind of exception, that same
\* exception escapes run_miner and main, and no success confirmation is emitted.
C2_OtherErrorsPropagate ==
    (thrown.site = "set_commitment" /\ thrown.kind # "MetadataError") =>
        /\ pc = "raised"
        /\ exc = thrown
        /\ ~ConfirmationEmitted
        /\ Logged("info",
             "Too soon to commit again. Will keep looking for better candidates.") = {}

C2_Witness ==
    /\ thrown = Exc("ConnectionError", "set_commitment")
    /\ exc = thrown

\* C3 as stated: a failure at wallet construction, chain connection, metagraph
\* fetch/sync or UID resolution is logged with the two error lines and re-raised.
C3_AllFourStepsLogged ==
    (thrown.site \in {"wallet", "async_subtensor", "metagraph", "sync", "index"}) =>
        /\ TwoErrorLines
        /\ exc = thrown

\* C3 amended: a failure at chain connection, metagraph fetch/sync or UID
\* resolution is logged with the two error lines and then re-raised; a failure of
\* wallet construction is re-raised without any error-level line.
C3_TryStepsLogged ==
    /\ (thrown.site \in {"async_subtensor", "metagraph", "sync", "index"}) =>
          /\ TwoErrorLines
          /\ exc = thrown
          /\ pc = "raised"
    /\ (thrown.site = "wallet") =>
          /\ ErrorLines = {}
          /\ exc = thrown
          /\ pc = "raised"

C3_Witness ==
    /\ thrown = Exc("ValueError", "index")
    /\ TwoErrorLines

\* C4: the success confirmation is logged and printed exactly when
\* set_commitment returned a truthy status; on a falsy status run_miner returns
\* normally with only the status line logged and printed, and no error.
C4_ConfirmationIffTruthy ==
    /\ Logged("info", Confirmation) # {} <=> commitment_status = << TRUE >>
    /\ Printed(Confirmation) # {} <=> commitment_status = << TRUE >>
    /\ (commitment_status = << FALSE >>) =>
          /\ pc = "done"
          /\ exc = NoExc
          /\ thrown = NoExc
          /\ ErrorLines = {}
          /\ stdout = << "Chain commitment status: False" >>
          /\ log[Len(log)] = [level |-> "info", msg |-> "Chain commitment status: False"]
    /\ (commitment_status = << TRUE >>) =>
          /\ pc = "done"
          /\ exc = NoExc
          /\ stdout = << "Chain commitment status: True", Confirmation >>

C4_Witness ==
    /\ commitment_status = << FALSE >>
    /\ Printed("Chain commitment status: False") # {}

\* C5: set_commitment is called at most once in a run and exactly once when
\* bootstrap succeeded; nothing is called after it; the run ends and stays ended.
C5_Attempts ==
    /\ Cardinality(CommitCalls) <= 1
    /\ CommitCalls # {} => CommitCalls = {Len(calls)}
    /\ (Terminal /\ node) => Cardinality(CommitCalls) = 1
    /\ CommitCalls # {} => Terminal

C6_CommitAlways68 ==
    \A i \in 1..Len(calls) :
        /\ calls[i].op = "metagraph" => calls[i].arg = config.netuid
        /\ calls[i].op = "set_commitment" =>
              /\ calls[i].arg.netuid = 68
              /\ calls[i].arg.data = "alcantara0123/nova-1119@master"
              /\ calls[i].arg.wallet = wallet
              /\ miner_uid # << >>
              /\ metagraph[miner_uid[1] + 1] = wallet

C6_Witness ==
    /\ CommitCalls # {}
    /\ config.netuid = 69
    /\ \E i \in 1..Len(calls) : calls[i] = Call("metagraph", 69)

\* C7: merging load_config() never changes a key already set from the command
\* line or environment; keys only in the file are added.
C7_FileNeverOverrides ==
    (pc # "parse_arguments") =>
        /\ \A k \in DOMAIN cli_config : config[k] = cli_config[k]
        /\ \A k \in DOMAIN file_params \ DOMAIN cli_config : config[k] = file_params[k]

\* C8 as stated: the resolved UID is an index holding the wallet's address and
\* the only such index; an absent address always raises.
C8_UniqueIndex ==
    /\ miner_uid # << >> =>
          /\ metagraph[miner_uid[1] + 1] = wallet
          /\ \A j \in 1..Len(metagraph) : metagraph[j] = wallet => j = miner_uid[1] + 1
    /\ ("index" \in Range(Ops) /\ wallet \notin Range(metagraph)) =>
          /\ miner_uid = << >>
          /\ thrown = Exc("ValueError", "index")

\* C8 amended: the resolved UID is the lowest index holding the wallet's address
\* (the only one when the list holds the address once); an absent address
\* always raises and no UID is returned.
C8_FirstIndex ==
    /\ miner_uid # << >> =>
          /\ miner_uid[1] \in 0..(Len(metagraph) - 1)
          /\ metagraph[miner_uid[1] + 1] = wallet
          /\ \A j \in 1..miner_uid[1] : metagraph[j] # wallet
    /\ ("index" \in Range(Ops) /\ wallet \in Range(metagraph)) => miner_uid # << >>
    /\ ("index" \in Range(Ops) /\ wallet \notin Range(metagraph)) =>
          /\ miner_uid = << >>
          /\ thrown = Exc("ValueError", "index")
          /\ exc = thrown

C8_Witness ==
    /\ metagraph = << "5Bob", "5Alice", "5Alice" >>
    /\ wallet = "5Alice"
    /\ miner_uid = << 1 >>

\* C9: the external actions occur in one fixed order, each only after every
\* earlier one completed without raising; set_commitment is never called in a
\* run where a bootstrap step failed.
C9_FixedOrder ==
    /\ Len(calls) <= Len(Order)
    /\ \A i \in 1..Len(calls) : calls[i].op = Order[i]
    /\ thrown # NoExc => (calls # << >> /\ calls[Len(calls)].op = thrown.site)
    /\ thrown.site \notin {"none", "set_commitment"} => CommitCalls = {}
    /\ CommitCalls # {} => (wallet # NoWallet /\ subtensor /\ miner_uid # << >>)

C9_Witness ==
    /\ Len(calls) = 9
    /\ pc = "done"

\* C10 as stated: whenever wallet construction, chain connection, metagraph
\* fetch/sync and UID resolution succeeded, the commitment is attempted, whether
\* or not the substrate client construction raises.
C10_NodeHasNoEffect ==
    (Terminal /\ miner_uid # << >>) => CommitCalls # {}

\* C10 amended: whenever those four steps succeeded and the substrate client
\* construction succeeds too, the commitment is attempted; when the construction
\* raises, the two error lines are logged, the exception is re-raised and no
\* commitment is attempted.
C10_NodeFailureIsFatal ==
    /\ (Terminal /\ miner_uid # << >> /\ node) => CommitCalls # {}
    /\ (thrown.site = "SubstrateInterface") =>
          /\ miner_uid # << >>
          /\ TwoErrorLines
          /\ exc = thrown
          /\ pc = "raised"
          /\ CommitCalls = {}

C10_Witness ==
    /\ thrown = Exc("ConnectionError", "SubstrateInterface")
    /\ miner_uid # << >>
    /\ pc = "raised"

====
